---- MODULE Spec2Model ----
(***************************************************************************)
(* Model of extract_keyframes.py: the keyframe locator, the phrase         *)
(* segmenter, the nearest-keyframe matcher and the pipeline driver main(). *)
(*                                                                         *)
(* A parsed JSON document (what json.loads returns) is a tree of tagged    *)
(* records; a dict keeps its keys in insertion order, as Python does.      *)
(* A str is the sequence of its characters.                                *)
(***************************************************************************)
EXTENDS Integers, Sequences, FiniteSets, TLC

VARIABLES
    pc,           \* position of main(): the stage the run has completed
    blob,         \* the parsed analysis result (read_json), never mutated
    args,         \* the parsed command-line flags
    keyframes,    \* main.keyframes
    segments,     \* main.segments
    matched_set,  \* main.matched_set
    to_extract,   \* main.to_extract
    pos,          \* 1-based position in to_extract of the frame being extracted
    cap,          \* the decoder handle of the current extract_and_write_frame call
    fs,           \* the filesystem under outdir
    stdout,       \* the lines printed to standard output, in order
    error,        \* the exception that ended the run, "none" while it runs
    call,         \* the arguments of a pure function under test
    ret           \* what that function returned or raised

vars == <<pc, blob, args, keyframes, segments, matched_set, to_extract, pos,
          cap, fs, stdout, error, call, ret>>

pipeline_vars == <<pc, blob, args, keyframes, segments, matched_set,
                   to_extract, pos, cap, fs, stdout, error>>

-----------------------------------------------------------------------------
(* JSON values *)

JNull == [tag |-> "null"]
JBool(b) == [tag |-> "bool", b |-> b]
JInt(n) == [tag |-> "int", n |-> n]
JStr(s) == [tag |-> "str", s |-> s]
JList(items) == [tag |-> "list", items |-> items]
JDict(keys, vals) == [tag |-> "dict", keys |-> keys, vals |-> vals]

IsDict(v) == v.tag = "dict"
IsList(v) == v.tag = "list"

\* isinstance(t, int): Python's bool is a subclass of int.
IsInstanceInt(v) == v.tag \in {"int", "bool"}

\* isinstance(v, list) and all(isinstance(t, int) for t in v)
IsListOfInt(v) == IsList(v) /\ \A i \in 1..Len(v.items) : IsInstanceInt(v.items[i])

HasKey(d, k) == \E i \in 1..Len(d.keys) : d.keys[i] = k

\* d[k] for a dict that has the key
Item(d, k) == d.vals[CHOOSE i \in 1..Len(d.keys) : d.keys[i] = k]

\* d.get(k): None (JSON null) when the key is absent
Get(d, k) == IF HasKey(d, k) THEN Item(d, k) ELSE JNull

\* bool(v): the truth value Python gives a parsed JSON value
Truthy(v) ==
    CASE v.tag = "null" -> FALSE
      [] v.tag = "bool" -> v.b
      [] v.tag = "int" -> v.n # 0
      [] v.tag = "str" -> v.s # <<>>
      [] v.tag = "list" -> v.items # <<>>
      [] v.tag = "dict" -> v.keys # <<>>

\* int(v) of a JSON int or bool
PyInt(v) == IF v.tag = "bool" THEN (IF v.b THEN 1 ELSE 0) ELSE v.n

Abs(n) == IF n < 0 THEN -n ELSE n

\* The sequences over S of length at most n
SeqsUpTo(S, n) == UNION {[1..k -> S] : k \in 0..n}

\* A list of JSON ints
JIntList(s) == JList([i \in 1..Len(s) |-> JInt(s[i])])

-----------------------------------------------------------------------------
(* extract_keyframe_times *)

KeyFrameTimesMs == "KeyFrameTimesMs"

\* How a call ends: it returns a value or raises an exception.
Pending == [state |-> "pending"]
Raised(e) == [state |-> "raised", error |-> e]
Returned(v) == [state |-> "returned", value |-> v]

\* Lines 63-71: the primary path. The try block swallows every exception of
\* the navigation, so a failure anywhere is "nothing found here".
primary_path(b) ==
    IF ~(IsDict(b) /\ HasKey(b, "result")) THEN JNull
    ELSE LET result == Item(b, "result") IN
         IF ~(IsDict(result) /\ HasKey(result, "contents")) THEN JNull
         ELSE LET contents == Item(result, "contents") IN
              IF ~(Truthy(contents) /\ IsList(contents)) THEN JNull
              ELSE LET item == contents.items[1] IN
                   IF ~IsDict(item) THEN JNull
                   ELSE LET times == Get(item, KeyFrameTimesMs) IN
                        IF IsListOfInt(times) THEN times ELSE JNull

\* Lines 74-87: the fallback search; JNull is Python's None.
RECURSIVE walk(_), walk_dict(_, _), walk_list(_, _)
walk(obj) ==
    IF IsDict(obj) THEN walk_dict(obj, 1)
    ELSE IF IsList(obj) THEN walk_list(obj.items, 1)
    ELSE JNull

walk_dict(d, i) ==
    IF i > Len(d.keys) THEN JNull
    ELSE IF d.keys[i] = KeyFrameTimesMs /\ IsListOfInt(d.vals[i]) THEN d.vals[i]
    ELSE LET got == walk(d.vals[i]) IN
         IF got # JNull THEN got ELSE walk_dict(d, i + 1)

walk_list(items, i) ==
    IF i > Len(items) THEN JNull
    ELSE LET got == walk(items[i]) IN
         IF got # JNull THEN got ELSE walk_list(items, i + 1)

extract_keyframe_times(b) ==
    LET times == primary_path(b) IN
    IF times # JNull THEN Returned(times.items)
    ELSE LET found == walk(b) IN
         IF found # JNull THEN Returned(found.items)
         ELSE Raised("ValueError: Could not find 'KeyFrameTimesMs' in JSON.")

-----------------------------------------------------------------------------
(* nearest_keyframe *)

\* A mutation of nearest_keyframe: a later element replaces the best so far
\* when it is equally near.
RECURSIVE min_by_distance_last(_, _, _, _)
min_by_distance_last(target_ms, ks, i, best) ==
    IF i > Len(ks) THEN best
    ELSE min_by_distance_last(target_ms, ks, i + 1,
            IF Abs(ks[i] - target_ms) <= Abs(best - target_ms) THEN ks[i] ELSE best)

nearest_keyframe_last(target_ms, ks) ==
    min_by_distance_last(target_ms, ks, 2, ks[1])

\* min(iterable, key=...): the running minimum changes only on a strictly
\* smaller key, so the first minimal element is the one returned.
RECURSIVE min_by_distance(_, _, _, _)
min_by_distance(target_ms, ks, i, best) ==
    IF i > Len(ks) THEN best
    ELSE min_by_distance(target_ms, ks, i + 1,
            IF Abs(ks[i] - target_ms) < Abs(best - target_ms) THEN ks[i] ELSE best)

\* A mutation of nearest_keyframe: the minimal distance is returned, not the
\* keyframe at that distance
nearest_keyframe_distance(target_ms, ks) ==
    Abs(min_by_distance(target_ms, ks, 2, ks[1]) - target_ms)

\* Line 141, for a non-empty list; min() of an empty list raises ValueError.
nearest_keyframe(target_ms, ks) ==
    min_by_distance(target_ms, ks, 2, ks[1])

-----------------------------------------------------------------------------
(* str methods, a str being the sequence of its characters *)

Whitespace == {" "}

RECURSIVE rstrip(_, _)
rstrip(s, cs) ==
    IF s # <<>> /\ s[Len(s)] \in cs THEN rstrip(SubSeq(s, 1, Len(s) - 1), cs) ELSE s

RECURSIVE lstrip(_, _)
lstrip(s, cs) ==
    IF s # <<>> /\ s[1] \in cs THEN lstrip(Tail(s), cs) ELSE s

strip(s) == lstrip(rstrip(s, Whitespace), Whitespace)

\* A mutation of endswith: the untrimmed end of the text is not looked at,
\* the character is searched for at the start
startswith(s, c) == s # <<>> /\ s[1] = c

endswith(s, c) == s # <<>> /\ s[Len(s)] = c

\* " ".join(ws)
RECURSIVE join(_)
join(ws) ==
    IF ws = <<>> THEN <<>>
    ELSE IF Len(ws) = 1 THEN ws[1]
    ELSE ws[1] \o <<" ">> \o join(Tail(ws))

\* s.replace(old, new): every non-overlapping occurrence, left to right
RECURSIVE replace(_, _, _)
replace(s, old, new) ==
    IF Len(s) < Len(old) THEN s
    ELSE IF SubSeq(s, 1, Len(old)) = old
         THEN new \o replace(SubSeq(s, Len(old) + 1, Len(s)), old, new)
         ELSE <<s[1]>> \o replace(Tail(s), old, new)

-----------------------------------------------------------------------------
(* ms_to_timecode *)

Digit(d) == <<"0", "1", "2", "3", "4", "5", "6", "7", "8", "9">>[d + 1]

\* str(n) for n >= 0
RECURSIVE decimal(_)
decimal(n) == IF n < 10 THEN <<Digit(n)>> ELSE decimal(n \div 10) \o <<Digit(n % 10)>>

\* f"{n:0<width>d}" for n >= 0: zero-padded on the left, never truncated
RECURSIVE zero_padded(_, _)
zero_padded(digits, width) ==
    IF Len(digits) >= width THEN digits ELSE zero_padded(<<"0">> \o digits, width)

\* A mutation of ms_to_timecode: the minutes are not reduced by the hours
ms_to_timecode_total_minutes(ms) ==
    LET s1 == ms \div 1000
        ms_part == ms % 1000
        m1 == s1 \div 60
        s == s1 % 60
        h == m1 \div 60
    IN  zero_padded(decimal(h), 2) \o <<":">> \o zero_padded(decimal(m1), 2) \o <<":">>
        \o zero_padded(decimal(s), 2) \o <<".">> \o zero_padded(decimal(ms_part), 3)

\* Lines 43-47
ms_to_timecode(ms) ==
    LET s1 == ms \div 1000
        ms_part == ms % 1000
        m1 == s1 \div 60
        s == s1 % 60
        h == m1 \div 60
        m == m1 % 60
    IN  zero_padded(decimal(h), 2) \o <<":">> \o zero_padded(decimal(m), 2) \o <<":">>
        \o zero_padded(decimal(s), 2) \o <<".">> \o zero_padded(decimal(ms_part), 3)

-----------------------------------------------------------------------------
(* map_ffmpeg_q_to_jpeg_quality *)

\* The builtins max and min of two integers
max(a, b) == IF a >= b THEN a ELSE b
min(a, b) == IF a <= b THEN a ELSE b

\* A mutation of map_ffmpeg_q_to_jpeg_quality: q is not clamped first
map_unclamped_q_to_jpeg_quality(q) == max(0, min(100, 100 - 3 * (q - 1)))

\* Lines 150-154
map_ffmpeg_q_to_jpeg_quality(q) ==
    LET q1 == max(1, min(31, q))
    IN  max(0, min(100, 100 - 3 * (q1 - 1)))

-----------------------------------------------------------------------------
(* extract_phrase_segments *)

\* int(v): a JSON int or bool converts, None raises TypeError, a str that is
\* not a numeral raises ValueError (no modelled str is a numeral), a list or
\* a mapping raises TypeError.
int_of(v) ==
    IF IsInstanceInt(v) THEN Returned(PyInt(v))
    ELSE IF v.tag = "str" THEN Raised("ValueError")
    ELSE Raised("TypeError")

\* Lines 118-125 (closing = TRUE) and 130-137 (closing = FALSE): the text of
\* a segment from the accumulated words
human_text(cur_words, closing) ==
    LET joined == strip(join(cur_words))
        fixed == IF closing
                 THEN replace(replace(joined, <<" ", ",">>, <<",">>), <<" ", ".">>, <<".">>)
                 ELSE joined
    IN  strip(rstrip(fixed, {",", "."}))

Segment(text, start, end) == [text |-> text, startTimeMs |-> start, endTimeMs |-> end]

\* A mutation of segment_words: a word whose startTimeMs or endTimeMs does
\* not convert is skipped
RECURSIVE segment_words_skipping(_, _, _, _, _)
segment_words_skipping(words, i, cur_words, seg_start, segs) ==
    IF i > Len(words)
    THEN IF cur_words = <<>> THEN Returned(segs)
         ELSE Returned(Append(segs,
                Segment(human_text(cur_words, FALSE), seg_start[1],
                        IF HasKey(words[Len(words)], "endTimeMs")
                        THEN PyInt(Get(words[Len(words)], "endTimeMs")) ELSE 0)))
    ELSE LET w == words[i] IN
         IF ~IsDict(w) THEN Raised("AttributeError")
         ELSE LET text == Get(w, "text") IN
              IF Truthy(text) /\ text.tag # "str" THEN Raised("AttributeError")
              ELSE LET wtext == IF Truthy(text) THEN strip(text.s) ELSE <<>>
                       ws == int_of(Get(w, "startTimeMs"))
                       we == int_of(Get(w, "endTimeMs"))
                   IN  IF ws.state = "raised" \/ we.state = "raised"
                       THEN segment_words_skipping(words, i + 1, cur_words, seg_start, segs)
                       ELSE LET start == IF seg_start = <<>> THEN <<ws.value>> ELSE seg_start
                                cur == Append(cur_words, rstrip(wtext, Whitespace))
                            IN  IF endswith(wtext, ",") \/ endswith(wtext, ".")
                                THEN segment_words_skipping(words, i + 1, <<>>, <<>>,
                                        Append(segs, Segment(human_text(cur, TRUE),
                                                             start[1], we.value)))
                                ELSE segment_words_skipping(words, i + 1, cur, start, segs)

\* Lines 109-137: the words of one transcript entry, from word i on, with the
\* accumulator cur_words and seg_start (<<>> is None); segs are the segments
\* appended so far.
RECURSIVE segment_words(_, _, _, _, _)
segment_words(words, i, cur_words, seg_start, segs) ==
    IF i > Len(words)
    THEN IF cur_words = <<>> THEN Returned(segs)
         ELSE Returned(Append(segs,
                Segment(human_text(cur_words, FALSE), seg_start[1],
                        PyInt(Get(words[Len(words)], "endTimeMs")))))
    ELSE LET w == words[i] IN
         IF ~IsDict(w) THEN Raised("AttributeError")
         ELSE LET text == Get(w, "text") IN
              IF Truthy(text) /\ text.tag # "str" THEN Raised("AttributeError")
              ELSE LET wtext == IF Truthy(text) THEN strip(text.s) ELSE <<>>
                       ws == int_of(Get(w, "startTimeMs"))
                       we == int_of(Get(w, "endTimeMs"))
                   IN  IF ws.state = "raised" THEN ws
                       ELSE IF we.state = "raised" THEN we
                       ELSE LET start == IF seg_start = <<>> THEN <<ws.value>> ELSE seg_start
                                cur == Append(cur_words, rstrip(wtext, Whitespace))
                            IN  IF endswith(wtext, ",") \/ endswith(wtext, ".")
                                THEN segment_words(words, i + 1, <<>>, <<>>,
                                        Append(segs, Segment(human_text(cur, TRUE),
                                                             start[1], we.value)))
                                ELSE segment_words(words, i + 1, cur, start, segs)

\* What iterating a value that is not a list and using its elements as
\* mappings raises: the keys of a dict and the characters of a str have no
\* get(); None, a number and a boolean are not iterable.
not_a_list_error(v) == IF v.tag \in {"dict", "str"} THEN "AttributeError" ELSE "TypeError"

\* Lines 103-137: the transcript entries from entry k on
RECURSIVE segment_phrases(_, _, _)
segment_phrases(phrases, k, segs) ==
    IF k > Len(phrases) THEN Returned(segs)
    ELSE LET p == phrases[k] IN
         IF ~IsDict(p) THEN Raised("AttributeError")
         ELSE LET words == IF HasKey(p, "words") THEN Item(p, "words") ELSE JList(<<>>) IN
              IF ~Truthy(words) THEN segment_phrases(phrases, k + 1, segs)
              ELSE IF ~IsList(words) THEN Raised(not_a_list_error(words))
              ELSE LET got == segment_words(words.items, 1, <<>>, <<>>, segs) IN
                   IF got.state = "raised" THEN got
                   ELSE segment_phrases(phrases, k + 1, got.value)

extract_phrase_segments(b) ==
    IF ~IsDict(b) THEN Raised("TypeError")
    ELSE IF ~HasKey(b, "result") THEN Raised("KeyError")
    ELSE LET result == Item(b, "result") IN
         IF ~IsDict(result) THEN Raised("TypeError")
         ELSE IF ~HasKey(result, "contents") THEN Raised("KeyError")
         ELSE LET contents == Item(result, "contents") IN
              IF ~Truthy(contents) THEN Returned(<<>>)
              ELSE IF ~IsList(contents)
                   THEN Raised(IF IsDict(contents) THEN "KeyError" ELSE not_a_list_error(contents))
              ELSE LET item == contents.items[1] IN
                   IF ~IsDict(item) THEN Raised("AttributeError")
                   ELSE LET phrases == IF HasKey(item, "transcriptPhrases")
                                       THEN Item(item, "transcriptPhrases")
                                       ELSE JList(<<>>)
                        IN  IF IsList(phrases) THEN segment_phrases(phrases.items, 1, <<>>)
                            ELSE IF phrases.tag \in {"dict", "str"} /\ ~Truthy(phrases)
                                 THEN Returned(<<>>)
                            ELSE Raised(not_a_list_error(phrases))

-----------------------------------------------------------------------------
(* main: the state of a run *)

\* A file that does not exist, and a CSV file with its header line and rows
NoFile == [exists |-> FALSE, rows |-> <<>>]
CsvFile(rows) == [exists |-> TRUE, rows |-> rows]

\* The output directory before the run
EmptyDisk == [outdir |-> FALSE, index_csv |-> NoFile, map_csv |-> NoFile, images |-> <<>>]

\* No decoder handle yet: open counts the handles open now, opened and
\* released count the VideoCapture objects opened and the release() calls,
\* seeks are the seeks made on the handle that is open, reads what each
\* read() after a seek yielded (TRUE for a frame), fps what the handle was
\* found to report as its frame rate.
NoCapture ==
    [open |-> 0, opened |-> 0, released |-> 0, seeks |-> <<>>, reads |-> <<>>,
     fps |-> "not read"]

\* Line 249
normalized_format(format) == IF format = "jpeg" THEN "jpg" ELSE format

\* f"{args.prefix}.{t}.{fmt}", kept as its three parts
frame_filename(a, t) ==
    [prefix |-> a.prefix, ms |-> t, ext |-> normalized_format(a.format)]

\* Line 256: one row of keyframes_index.csv
index_row(a, t) ==
    [timestamp_ms |-> t, timecode |-> ms_to_timecode(t), filename |-> frame_filename(a, t)]

\* A mutation of index_rows: one row per distinct keyframe, ascending
index_rows_distinct(a, ks) ==
    LET S == {ks[i] : i \in 1..Len(ks)}
        RECURSIVE asc(_)
        asc(T) == IF T = {} THEN <<>>
                  ELSE LET least == CHOOSE x \in T : \A y \in T : x <= y
                       IN  <<index_row(a, least)>> \o asc(T \ {least})
    IN  asc(S)

\* Lines 255-256: the rows of keyframes_index.csv
index_rows(a, ks) == [i \in 1..Len(ks) |-> index_row(a, ks[i])]

\* Line 267
anchor_of(seg) == (seg.startTimeMs + seg.endTimeMs) \div 2

\* Lines 265-278: one row of phrase_keyframe_map.csv
map_row(a, idx, seg, ks) ==
    LET matched == nearest_keyframe(anchor_of(seg), ks) IN
    [phrase_idx |-> idx,
     phrase_text |-> replace(seg.text, <<"\"">>, <<"'">>),
     start_ms |-> seg.startTimeMs, start_tc |-> ms_to_timecode(seg.startTimeMs),
     end_ms |-> seg.endTimeMs, end_tc |-> ms_to_timecode(seg.endTimeMs),
     anchor_ms |-> anchor_of(seg), anchor_tc |-> ms_to_timecode(anchor_of(seg)),
     matched_keyframe_ms |-> matched, matched_keyframe_tc |-> ms_to_timecode(matched),
     matched_filename |-> frame_filename(a, matched)]

\* A mutation of map_rows: a phrase whose keyframe an earlier phrase already
\* matched gets no row
RECURSIVE map_rows_unmatched_only(_, _, _)
map_rows_unmatched_only(a, segs, ks) ==
    IF segs = <<>> THEN <<>>
    ELSE LET front == map_rows_unmatched_only(a, SubSeq(segs, 1, Len(segs) - 1), ks)
             row == map_row(a, Len(front) + 1, segs[Len(segs)], ks)
         IN  IF \E i \in 1..Len(front) :
                    front[i].matched_keyframe_ms = row.matched_keyframe_ms
             THEN front
             ELSE Append(front, row)

\* Lines 264-279: the rows of phrase_keyframe_map.csv
map_rows(a, segs, ks) == [i \in 1..Len(segs) |-> map_row(a, i, segs[i], ks)]

\* sorted(S) of a set of ints
RECURSIVE sorted(_)
sorted(S) ==
    IF S = {} THEN <<>>
    ELSE LET least == CHOOSE x \in S : \A y \in S : x <= y
         IN  <<least>> \o sorted(S \ {least})

\* A mutation of select_extraction_set: the matched-only flag alone decides
select_extraction_set_by_only_matched(a, matched, ks) ==
    IF a.only_matched THEN sorted(matched) ELSE ks

\* Lines 283-286
select_extraction_set(a, matched, ks) ==
    IF a.match_phrases /\ a.only_matched THEN sorted(matched) ELSE ks

\* A mutation of get_frame_at_ms: after a failed first read the seek by frame
\* index is made whatever the frame rate
get_frame_at_ms_any_fps(read1, fps_positive, read2) ==
    IF read1
    THEN [frame |-> TRUE, seeks |-> <<"CAP_PROP_POS_MSEC">>, reads |-> <<TRUE>>,
          fps |-> "not read"]
    ELSE [frame |-> read2, seeks |-> <<"CAP_PROP_POS_MSEC", "CAP_PROP_POS_FRAMES">>,
          reads |-> <<FALSE, read2>>,
          fps |-> IF fps_positive THEN "positive" ELSE "not positive"]

\* Lines 177-186: get_frame_at_ms, given what the decoder does: whether the
\* read after the time-based seek yields a frame, whether the stream reports
\* a positive frame rate, whether the read after the frame-index seek yields
\* a frame.
\* The result tells the frame (TRUE) or None (FALSE), the seeks made, what
\* each read yielded, and what was learnt of the frame rate.
get_frame_at_ms(read1, fps_positive, read2) ==
    IF read1
    THEN [frame |-> TRUE, seeks |-> <<"CAP_PROP_POS_MSEC">>, reads |-> <<TRUE>>,
          fps |-> "not read"]
    ELSE IF fps_positive
         THEN [frame |-> read2, seeks |-> <<"CAP_PROP_POS_MSEC", "CAP_PROP_POS_FRAMES">>,
               reads |-> <<FALSE, read2>>, fps |-> "positive"]
         ELSE [frame |-> FALSE, seeks |-> <<"CAP_PROP_POS_MSEC">>, reads |-> <<FALSE>>,
               fps |-> "not positive"]

-----------------------------------------------------------------------------
(* main: the analysis results and flags a run is started with *)

MaxKeyframes == 3
MaxWords == 2
PipelineTimes == {0, 1, 4}

Word(text, start, end) ==
    JDict(<<"text", "startTimeMs", "endTimeMs">>, <<JStr(text), JInt(start), JInt(end)>>)

\* A word of a malformed transcript: no endTimeMs
WordWithoutEnd(text, start) ==
    JDict(<<"text", "startTimeMs">>, <<JStr(text), JInt(start)>>)

\* A word that closes no phrase and a word that closes one
PipelineWords == {Word(<<"a">>, 0, 1), Word(<<"b", ",">>, 1, 4)}

\* The word lists of a transcript entry: well-formed ones, and malformed ones
\* with the offending word first, last, and after a closed phrase
PipelineWordLists ==
    SeqsUpTo(PipelineWords, MaxWords)
    \cup {<<WordWithoutEnd(<<"c">>, 4)>>,
          <<Word(<<"b", ",">>, 1, 4), WordWithoutEnd(<<"c">>, 4)>>,
          <<WordWithoutEnd(<<"c">>, 4), Word(<<"b", ",">>, 1, 4)>>}

\* The documented shape: keyframes and transcript under result.contents[0]
AnalysisResult(ks, words) ==
    JDict(<<"result">>,
          <<JDict(<<"contents">>,
                  <<JList(<<JDict(<<KeyFrameTimesMs, "transcriptPhrases">>,
                                  <<JIntList(ks),
                                    JList(<<JDict(<<"words">>, <<JList(words)>>)>>)>>)>>)>>)>>)

\* No "result": the keyframes are found by the fallback search only
BuriedResult(ks) == JList(<<JDict(<<"x">>, <<JDict(<<KeyFrameTimesMs>>, <<JIntList(ks)>>)>>)>>)

\* No keyframe list anywhere
ResultWithoutKeyframes(words) ==
    JDict(<<"result">>,
          <<JDict(<<"contents">>,
                  <<JList(<<JDict(<<"transcriptPhrases">>,
                                  <<JList(<<JDict(<<"words">>, <<JList(words)>>)>>)>>)>>)>>)>>)

PipelineBlobs ==
    {AnalysisResult(ks, ws) : ks \in SeqsUpTo(PipelineTimes, MaxKeyframes),
                              ws \in PipelineWordLists}
    \cup {BuriedResult(ks) : ks \in SeqsUpTo(PipelineTimes, MaxKeyframes)}
    \cup {ResultWithoutKeyframes(<<>>), ResultWithoutKeyframes(<<Word(<<"a">>, 0, 1)>>)}

\* Lines 220-232: the flags vary, the other options keep their defaults
PipelineArgs ==
    {[video_exists |-> v, prefix |-> "keyFrame", format |-> "jpg",
      timestamps_only |-> t, match_phrases |-> m, only_matched |-> o, dry_run |-> d] :
     v \in BOOLEAN, t \in BOOLEAN, m \in BOOLEAN, o \in BOOLEAN, d \in BOOLEAN}

-----------------------------------------------------------------------------
(* main: one action per stage *)

Init ==
    /\ pc = "INIT"
    /\ blob \in PipelineBlobs
    /\ args \in PipelineArgs
    /\ keyframes = <<>>
    /\ segments = <<>>
    /\ matched_set = {}
    /\ to_extract = <<>>
    /\ pos = 0
    /\ cap = NoCapture
    /\ fs = EmptyDisk
    /\ stdout = <<>>
    /\ error = "none"
    /\ call = <<>>
    /\ ret = <<>>

\* Lines 234-236
VideoNotFound ==
    /\ pc = "INIT"
    /\ ~args.video_exists
    /\ pc' = "ABORTED"
    /\ error' = "SystemExit: Video not found"
    /\ UNCHANGED <<blob, args, keyframes, segments, matched_set, to_extract, pos,
                   cap, fs, stdout, call, ret>>

\* Lines 238-239, extract_keyframe_times returns
LocateKeyframes ==
    /\ pc = "INIT"
    /\ args.video_exists
    /\ LET r == extract_keyframe_times(blob) IN
       /\ r.state = "returned"
       /\ keyframes' = [i \in 1..Len(r.value) |-> PyInt(r.value[i])]
    /\ pc' = "LOCATE_KEYFRAMES"
    /\ UNCHANGED <<blob, args, segments, matched_set, to_extract, pos,
                   cap, fs, stdout, error, call, ret>>

\* A mutation of LocateFails: the output directory is made before the
\* analysis result is read
LocateFailsAfterMkdir ==
    /\ pc = "INIT"
    /\ args.video_exists
    /\ LET r == extract_keyframe_times(blob) IN
       /\ r.state = "raised"
       /\ error' = r.error
    /\ fs' = [fs EXCEPT !.outdir = TRUE]
    /\ pc' = "ABORTED"
    /\ UNCHANGED <<blob, args, keyframes, segments, matched_set, to_extract, pos,
                   cap, stdout, call, ret>>

\* Lines 238-239, extract_keyframe_times raises
LocateFails ==
    /\ pc = "INIT"
    /\ args.video_exists
    /\ LET r == extract_keyframe_times(blob) IN
       /\ r.state = "raised"
       /\ error' = r.error
    /\ pc' = "ABORTED"
    /\ UNCHANGED <<blob, args, keyframes, segments, matched_set, to_extract, pos,
                   cap, fs, stdout, call, ret>>

\* A mutation of TimestampsOnly: the keyframes are printed and main goes on
\* to the output directory and the index instead of returning
TimestampsOnlyWithoutReturn ==
    /\ pc = "LOCATE_KEYFRAMES"
    /\ args.timestamps_only
    /\ stdout' = stdout \o [i \in 1..Len(keyframes) |->
                    [line |-> "timestamp", ms |-> keyframes[i],
                     timecode |-> ms_to_timecode(keyframes[i])]]
    /\ fs' = [fs EXCEPT !.outdir = TRUE,
                        !.index_csv = CsvFile(index_rows(args, keyframes))]
    /\ pc' = "EMIT_INDEX"
    /\ UNCHANGED <<blob, args, keyframes, segments, matched_set, to_extract, pos,
                   cap, error, call, ret>>

\* Lines 241-244
TimestampsOnly ==
    /\ pc = "LOCATE_KEYFRAMES"
    /\ args.timestamps_only
    /\ stdout' = stdout \o [i \in 1..Len(keyframes) |->
                    [line |-> "timestamp", ms |-> keyframes[i],
                     timecode |-> ms_to_timecode(keyframes[i])]]
    /\ pc' = "DONE"
    /\ UNCHANGED <<blob, args, keyframes, segments, matched_set, to_extract, pos,
                   cap, fs, error, call, ret>>

\* Lines 246-256: the output directory is made and keyframes_index.csv written
EmitIndex ==
    /\ pc = "LOCATE_KEYFRAMES"
    /\ ~args.timestamps_only
    /\ fs' = [fs EXCEPT !.outdir = TRUE,
                        !.index_csv = CsvFile(index_rows(args, keyframes))]
    /\ pc' = "EMIT_INDEX"
    /\ UNCHANGED <<blob, args, keyframes, segments, matched_set, to_extract, pos,
                   cap, stdout, error, call, ret>>

\* Lines 259-260, extract_phrase_segments raises: the map file is not opened
SegmentFails ==
    /\ pc = "EMIT_INDEX"
    /\ args.match_phrases
    /\ LET r == extract_phrase_segments(blob) IN
       /\ r.state = "raised"
       /\ error' = r.error
    /\ pc' = "ABORTED"
    /\ UNCHANGED <<blob, args, keyframes, segments, matched_set, to_extract, pos,
                   cap, fs, stdout, call, ret>>

\* Lines 259-268 with phrases to match and no keyframe: the map file is
\* opened, its header written, and min() raises at the first phrase
MatchFails ==
    /\ pc = "EMIT_INDEX"
    /\ args.match_phrases
    /\ LET r == extract_phrase_segments(blob) IN
       /\ r.state = "returned"
       /\ r.value # <<>>
       /\ keyframes = <<>>
       /\ segments' = r.value
    /\ fs' = [fs EXCEPT !.map_csv = CsvFile(<<>>)]
    /\ error' = "ValueError: min() arg is an empty sequence"
    /\ pc' = "ABORTED"
    /\ UNCHANGED <<blob, args, keyframes, matched_set, to_extract, pos,
                   cap, stdout, call, ret>>

\* Lines 259-280: every phrase is matched and phrase_keyframe_map.csv written
SegmentAndMatch ==
    /\ pc = "EMIT_INDEX"
    /\ args.match_phrases
    /\ LET r == extract_phrase_segments(blob) IN
       /\ r.state = "returned"
       /\ r.value = <<>> \/ keyframes # <<>>
       /\ segments' = r.value
       /\ fs' = [fs EXCEPT !.map_csv = CsvFile(map_rows(args, r.value, keyframes))]
       /\ matched_set' = {nearest_keyframe(anchor_of(r.value[i]), keyframes) :
                             i \in 1..Len(r.value)}
    /\ stdout' = Append(stdout, [line |-> "Wrote phrase->keyframe map"])
    /\ pc' = "SEGMENT_AND_MATCH"
    /\ UNCHANGED <<blob, args, keyframes, to_extract, pos, cap, error, call, ret>>

\* A mutation of SelectExtractionSet: the extraction set is selected right
\* after the index, before any phrase is matched
SelectBeforeMatching ==
    /\ pc = "EMIT_INDEX"
    /\ to_extract' = select_extraction_set(args, matched_set, keyframes)
    /\ pos' = 1
    /\ pc' = "SELECT_EXTRACTION_SET"
    /\ UNCHANGED <<blob, args, keyframes, segments, matched_set,
                   cap, fs, stdout, error, call, ret>>

\* Lines 283-286
SelectExtractionSet ==
    /\ \/ pc = "EMIT_INDEX" /\ ~args.match_phrases
       \/ pc = "SEGMENT_AND_MATCH"
    /\ to_extract' = select_extraction_set(args, matched_set, keyframes)
    /\ pos' = 1
    /\ pc' = "SELECT_EXTRACTION_SET"
    /\ UNCHANGED <<blob, args, keyframes, segments, matched_set,
                   cap, fs, stdout, error, call, ret>>

\* Line 289: the head of the extraction loop, before the first frame or
\* between two frames
AtLoopHead == pc \in {"SELECT_EXTRACTION_SET", "EXTRACT_FRAMES"}

\* A mutation of DryRunFrame: the frame is reported and written all the same
DryRunFrameWritten ==
    /\ AtLoopHead
    /\ pos <= Len(to_extract)
    /\ args.dry_run
    /\ stdout' = Append(stdout, [line |-> "DRY RUN: extract frame", ms |-> to_extract[pos],
                                 out_path |-> frame_filename(args, to_extract[pos])])
    /\ fs' = [fs EXCEPT !.images = Append(@, frame_filename(args, to_extract[pos]))]
    /\ pos' = pos + 1
    /\ pc' = "EXTRACT_FRAMES"
    /\ UNCHANGED <<blob, args, keyframes, segments, matched_set, to_extract,
                   cap, error, call, ret>>

\* Lines 199-201: a dry run reports the frame and extracts nothing
DryRunFrame ==
    /\ AtLoopHead
    /\ pos <= Len(to_extract)
    /\ args.dry_run
    /\ stdout' = Append(stdout, [line |-> "DRY RUN: extract frame", ms |-> to_extract[pos],
                                 out_path |-> frame_filename(args, to_extract[pos])])
    /\ pos' = pos + 1
    /\ pc' = "EXTRACT_FRAMES"
    /\ UNCHANGED <<blob, args, keyframes, segments, matched_set, to_extract,
                   cap, fs, error, call, ret>>

\* Lines 203-204: the video opens
OpenVideo ==
    /\ AtLoopHead
    /\ pos <= Len(to_extract)
    /\ ~args.dry_run
    /\ cap' = [cap EXCEPT !.open = @ + 1, !.opened = @ + 1]
    /\ pc' = "FRAME_OPENED"
    /\ UNCHANGED <<blob, args, keyframes, segments, matched_set, to_extract, pos,
                   fs, stdout, error, call, ret>>

\* Lines 203-205: the video does not open; no handle is held
OpenVideoFails ==
    /\ AtLoopHead
    /\ pos <= Len(to_extract)
    /\ ~args.dry_run
    /\ error' = "RuntimeError: Could not open video"
    /\ pc' = "ABORTED"
    /\ UNCHANGED <<blob, args, keyframes, segments, matched_set, to_extract, pos,
                   cap, fs, stdout, call, ret>>

\* Lines 208-210: get_frame_at_ms; without a frame the error is raised and
\* the finally clause is next
ReadFrame ==
    /\ pc = "FRAME_OPENED"
    /\ \E read1 \in BOOLEAN, fps_positive \in BOOLEAN, read2 \in BOOLEAN :
          LET got == get_frame_at_ms(read1, fps_positive, read2) IN
          /\ cap' = [cap EXCEPT !.seeks = got.seeks, !.reads = got.reads, !.fps = got.fps]
          /\ IF got.frame
             THEN pc' = "FRAME_READ" /\ UNCHANGED error
             ELSE pc' = "FRAME_RELEASE" /\ error' = "RuntimeError: Failed to read frame"
    /\ UNCHANGED <<blob, args, keyframes, segments, matched_set, to_extract, pos,
                   fs, stdout, call, ret>>

\* Lines 213-215: the frame is written to out_path, or imwrite reports failure
WriteFrame ==
    /\ pc = "FRAME_READ"
    /\ \E ok \in BOOLEAN :
          IF ok
          THEN /\ fs' = [fs EXCEPT !.images = Append(@, frame_filename(args, to_extract[pos]))]
               /\ UNCHANGED error
          ELSE /\ error' = "RuntimeError: Failed to write image"
               /\ UNCHANGED fs
    /\ pc' = "FRAME_RELEASE"
    /\ UNCHANGED <<blob, args, keyframes, segments, matched_set, to_extract, pos,
                   cap, stdout, call, ret>>

\* A mutation of ReleaseVideo: the loop goes on to the next frame after a
\* failed one
ReleaseVideoAndContinue ==
    /\ pc = "FRAME_RELEASE"
    /\ cap' = [cap EXCEPT !.open = @ - 1, !.released = @ + 1, !.seeks = <<>>,
                           !.reads = <<>>, !.fps = "not read"]
    /\ pc' = "EXTRACT_FRAMES"
    /\ pos' = pos + 1
    /\ UNCHANGED <<blob, args, keyframes, segments, matched_set, to_extract,
                   fs, stdout, error, call, ret>>

\* A mutation of ReleaseVideo: release() is called after the image is saved,
\* not in a finally clause, so a pending error leaves main with the handle
\* open
ReleaseVideoOnSuccess ==
    /\ pc = "FRAME_RELEASE"
    /\ IF error = "none"
       THEN /\ cap' = [cap EXCEPT !.open = @ - 1, !.released = @ + 1, !.seeks = <<>>,
                                  !.reads = <<>>, !.fps = "not read"]
            /\ pc' = "EXTRACT_FRAMES" /\ pos' = pos + 1
       ELSE pc' = "ABORTED" /\ UNCHANGED <<pos, cap>>
    /\ UNCHANGED <<blob, args, keyframes, segments, matched_set, to_extract,
                   fs, stdout, error, call, ret>>

\* Lines 216-217: the finally clause releases the handle; then the call
\* returns to the loop or the pending error leaves main
ReleaseVideo ==
    /\ pc = "FRAME_RELEASE"
    /\ cap' = [cap EXCEPT !.open = @ - 1, !.released = @ + 1, !.seeks = <<>>,
                           !.reads = <<>>, !.fps = "not read"]
    /\ IF error = "none"
       THEN pc' = "EXTRACT_FRAMES" /\ pos' = pos + 1
       ELSE pc' = "ABORTED" /\ UNCHANGED pos
    /\ UNCHANGED <<blob, args, keyframes, segments, matched_set, to_extract,
                   fs, stdout, error, call, ret>>

\* Lines 293-296
Finish ==
    /\ AtLoopHead
    /\ pos > Len(to_extract)
    /\ stdout' = stdout \o
            <<[line |-> "Saved frames", count |-> Len(to_extract)],
              [line |-> "All keyframes index"]>>
            \o (IF args.match_phrases THEN <<[line |-> "Phrase map"]>> ELSE <<>>)
    /\ pc' = "DONE"
    /\ UNCHANGED <<blob, args, keyframes, segments, matched_set, to_extract, pos,
                   cap, fs, error, call, ret>>

Next ==
    \/ VideoNotFound
    \/ LocateKeyframes
    \/ LocateFails
    \/ TimestampsOnly
    \/ EmitIndex
    \/ SegmentFails
    \/ MatchFails
    \/ SegmentAndMatch
    \/ SelectExtractionSet
    \/ DryRunFrame
    \/ OpenVideo
    \/ OpenVideoFails
    \/ ReadFrame
    \/ WriteFrame
    \/ ReleaseVideo
    \/ Finish

Spec == Init /\ [][Next]_vars

-----------------------------------------------------------------------------
(* Properties of a run of main *)

Range(seq) == {seq[i] : i \in 1..Len(seq)}

\* The extraction set has been selected (line 286 has run)
Selected == pos >= 1

\* phrase_keyframe_map.csv has been produced: line 280 reports it
MapProduced == \E i \in 1..Len(stdout) : stdout[i].line = "Wrote phrase->keyframe map"

\* The keyframes the rows of the phrase map name
MatchedInMap == {fs.map_csv.rows[i].matched_keyframe_ms : i \in 1..Len(fs.map_csv.rows)}

StrictlyAscending(seq) == \A i \in 1..(Len(seq) - 1) : seq[i] < seq[i + 1]

\* C2: once the extraction set is selected, with both the phrase-matching
\* and the matched-only flag it is the matched keyframes of all phrases,
\* ascending and without duplicates; with any other flags it is the keyframe
\* sequence as located.
C2_ExtractionSet ==
    Selected =>
        IF args.match_phrases /\ args.only_matched
        THEN /\ StrictlyAscending(to_extract)
             /\ Range(to_extract) = MatchedInMap
        ELSE to_extract = keyframes

\* Two phrases matched to one keyframe, which is extracted once
C2_Witness ==
    /\ Selected
    /\ args.match_phrases /\ args.only_matched
    /\ Len(fs.map_csv.rows) = 2
    /\ fs.map_csv.rows[1].matched_keyframe_ms = fs.map_csv.rows[2].matched_keyframe_ms
    /\ Len(to_extract) = 1
    /\ Len(keyframes) = 3

\* C3: keyframes_index.csv, once written, has one row per located keyframe,
\* in the order located and with duplicates, whatever the phrase-matching and
\* matched-only flags and whatever is extracted; a run that is past the index
\* stage has written it.
C3_IndexListsEveryKeyframe ==
    /\ (fs.index_csv.exists =>
          (/\ Len(fs.index_csv.rows) = Len(keyframes)
           /\ \A i \in 1..Len(keyframes) :
                 /\ fs.index_csv.rows[i].timestamp_ms = keyframes[i]
                 /\ fs.index_csv.rows[i].filename.ms = keyframes[i]))
    /\ ((pc \notin {"INIT", "LOCATE_KEYFRAMES", "ABORTED"} /\ ~args.timestamps_only)
          => fs.index_csv.exists)
    /\ (Selected => fs.index_csv.exists)

\* Matched-only mode extracts fewer frames than the index lists, and the
\* keyframe list has a duplicate
C3_Witness ==
    /\ pc = "DONE"
    /\ args.match_phrases /\ args.only_matched
    /\ Len(keyframes) = 3
    /\ keyframes[1] = keyframes[3]
    /\ Len(fs.index_csv.rows) = 3
    /\ Len(to_extract) = 1

\* C4: when the phrase map has been produced it has one row per Phrase the
\* segmenter returned, in the segmenter's order, with phrase indices 1..n;
\* phrases matched to the same keyframe keep their own rows.
C4_MapHasOneRowPerPhrase ==
    MapProduced =>
        LET phrases == extract_phrase_segments(blob).value
            rows == fs.map_csv.rows
        IN  /\ fs.map_csv.exists
            /\ Len(rows) = Len(phrases)
            /\ \A i \in 1..Len(rows) :
                  /\ rows[i].phrase_idx = i
                  /\ rows[i].phrase_text = phrases[i].text
                  /\ rows[i].start_ms = phrases[i].startTimeMs
                  /\ rows[i].end_ms = phrases[i].endTimeMs

\* Two phrases matched to the same keyframe, two rows
C4_Witness ==
    /\ MapProduced
    /\ Len(fs.map_csv.rows) = 2
    /\ fs.map_csv.rows[1].matched_keyframe_ms = fs.map_csv.rows[2].matched_keyframe_ms
    /\ fs.map_csv.rows[1].start_ms # fs.map_csv.rows[2].start_ms

\* C5: every row of the phrase map has anchor floor((start + end) / 2) and a
\* matched keyframe that is one of the located keyframes; so is every
\* matched keyframe the run holds and every timestamp of a matched-only
\* extraction set.
C5_MatchedIsAKeyframe ==
    /\ \A i \in 1..Len(fs.map_csv.rows) :
          LET row == fs.map_csv.rows[i] IN
          /\ row.anchor_ms = (row.start_ms + row.end_ms) \div 2
          /\ row.matched_keyframe_ms \in Range(keyframes)
    /\ matched_set \subseteq Range(keyframes)
    /\ ((Selected /\ args.match_phrases /\ args.only_matched) =>
          Range(to_extract) \subseteq Range(keyframes))

\* A matched-only extraction set of two keyframes out of three
C5_Witness ==
    /\ Selected
    /\ args.match_phrases /\ args.only_matched
    /\ Len(to_extract) = 2
    /\ Len(keyframes) = 3
    /\ Cardinality(Range(keyframes)) = 3

\* The stages in their order; the steps of one frame's extraction belong to
\* EXTRACT_FRAMES.
StageRank(p) ==
    CASE p = "INIT" -> 0
      [] p = "LOCATE_KEYFRAMES" -> 1
      [] p = "EMIT_INDEX" -> 2
      [] p = "SEGMENT_AND_MATCH" -> 3
      [] p = "SELECT_EXTRACTION_SET" -> 4
      [] p \in {"EXTRACT_FRAMES", "FRAME_OPENED", "FRAME_READ", "FRAME_RELEASE"} -> 5
      [] p = "DONE" -> 6
      [] p = "ABORTED" -> 7

\* A frame has been extracted, or reported by a dry run
FrameHandled ==
    \/ fs.images # <<>>
    \/ cap.opened > 0
    \/ \E i \in 1..Len(stdout) : stdout[i].line = "DRY RUN: extract frame"

\* The step from one stage to the next one of the fixed order
StageStep ==
    \/ pc' = pc
    \/ pc' = "ABORTED" /\ pc # "DONE"
    \/ pc = "INIT" /\ pc' = "LOCATE_KEYFRAMES"
    \/ pc = "LOCATE_KEYFRAMES" /\ pc' = "EMIT_INDEX" /\ ~args.timestamps_only
    \/ pc = "LOCATE_KEYFRAMES" /\ pc' = "DONE" /\ args.timestamps_only
    \/ pc = "EMIT_INDEX" /\ pc' = "SEGMENT_AND_MATCH" /\ args.match_phrases
    \/ pc = "EMIT_INDEX" /\ pc' = "SELECT_EXTRACTION_SET" /\ ~args.match_phrases
    \/ pc = "SEGMENT_AND_MATCH" /\ pc' = "SELECT_EXTRACTION_SET"
    \/ StageRank(pc) \in {4, 5} /\ StageRank(pc') = 5
    \/ AtLoopHead /\ pc' = "DONE"

\* C6: a run takes its stages in the fixed order, none twice: locate, index,
\* (with phrase matching only) segment-and-match with the phrase map, select,
\* extract, done; a frame is handled only after the index and, when phrase
\* matching is requested, the phrase map have been written.
C6_StagesInOrder ==
    /\ [][StageStep /\ StageRank(pc') >= StageRank(pc)]_vars
    /\ [](FrameHandled =>
            (fs.index_csv.exists /\ (args.match_phrases => MapProduced)))
    /\ []((pc = "DONE" /\ ~args.timestamps_only) =>
            (Selected /\ fs.index_csv.exists /\ (args.match_phrases => MapProduced)))

\* A run with phrase matching that extracted two frames and is done
C6_Witness ==
    /\ pc = "DONE"
    /\ args.match_phrases
    /\ MapProduced
    /\ Len(fs.images) = 2

\* The extraction of the frame at position pos has failed
ExtractionFailed == Selected /\ error # "none"

\* The files written for the frames before position n
FramesBefore(n) == [i \in 1..(n - 1) |-> frame_filename(args, to_extract[i])]

\* C7: when the extraction of the frame at position i fails the run aborts
\* with that error and never reaches DONE; no frame after position i is
\* attempted; the frames before i and the CSV artifacts stay as written.
C7_FailFast ==
    /\ [](ExtractionFailed =>
            /\ pc \in {"FRAME_RELEASE", "ABORTED"}
            /\ fs.images = FramesBefore(pos)
            /\ cap.opened <= pos
            /\ fs.index_csv = CsvFile(index_rows(args, keyframes))
            /\ (args.match_phrases =>
                    fs.map_csv = CsvFile(map_rows(args, segments, keyframes))))
    /\ [][ExtractionFailed =>
            /\ ExtractionFailed'
            /\ pc' \in {"FRAME_RELEASE", "ABORTED"}
            /\ error' = error
            /\ pos' = pos
            /\ fs' = fs]_vars

\* The second of three frames failed after the first was written
C7_Witness ==
    /\ pc = "ABORTED"
    /\ ExtractionFailed
    /\ pos = 2
    /\ Len(to_extract) = 3
    /\ Len(fs.images) = 1

\* C8, as stated: a dry run creates no directory and creates or overwrites no
\* file, image or CSV artifact.
C8_DryRunMutatesNothing ==
    args.dry_run => fs = EmptyDisk

\* The dry-run reports of a finished run: one per frame of the extraction
\* set, in order, each with its output path
DryRunReports ==
    [i \in 1..Len(to_extract) |->
        [line |-> "DRY RUN: extract frame", ms |-> to_extract[i],
         out_path |-> frame_filename(args, to_extract[i])]]

ReportedDryRuns ==
    LET RECURSIVE only(_)
        only(out) == IF out = <<>> THEN <<>>
                     ELSE IF Head(out).line = "DRY RUN: extract frame"
                          THEN <<Head(out)>> \o only(Tail(out))
                          ELSE only(Tail(out))
    IN  only(stdout)

\* C8, amended: a dry run writes no image and opens no decoder handle, and
\* reports each would-be extraction with its output path; the output
\* directory and the CSV artifacts are written as in any run.
C8_DryRunWritesNoImage ==
    args.dry_run =>
        /\ fs.images = <<>>
        /\ cap = NoCapture
        /\ ((pc = "DONE" /\ ~args.timestamps_only) =>
               (/\ ReportedDryRuns = DryRunReports
                /\ fs.outdir
                /\ fs.index_csv.exists
                /\ (args.match_phrases => fs.map_csv.exists)))

\* A finished dry run of two frames, with the directory and both CSV files
C8_Witness ==
    /\ args.dry_run
    /\ pc = "DONE"
    /\ Len(to_extract) = 2
    /\ Len(ReportedDryRuns) = 2
    /\ fs.outdir /\ fs.index_csv.exists /\ fs.map_csv.exists

\* C9: with the timestamps-only flag a run that locates the keyframes prints
\* each of them, in the order located, and ends; it extracts no frame and
\* writes nothing, whatever the other flags.
C9_TimestampsOnly ==
    args.timestamps_only =>
        /\ pc \in {"INIT", "LOCATE_KEYFRAMES", "DONE", "ABORTED"}
        /\ ~FrameHandled
        /\ fs = EmptyDisk
        /\ ~Selected
        /\ (pc = "DONE" =>
               (/\ Len(stdout) = Len(keyframes)
                /\ \A i \in 1..Len(stdout) :
                      stdout[i].line = "timestamp" /\ stdout[i].ms = keyframes[i]))

\* A timestamps-only run, with every other flag set, that printed three
\* keyframes that are not in ascending order
C9_Witness ==
    /\ args.timestamps_only /\ args.match_phrases /\ args.only_matched
    /\ pc = "DONE"
    /\ Len(stdout) = 3
    /\ stdout[1].ms > stdout[2].ms

-----------------------------------------------------------------------------
(* The pure functions, each applied once to an input drawn from a bounded set *)

MaxLen == 3
MatcherTimes == {0, 1, 2, 4}
MatcherTargets == -1..5

PipelineIdle ==
    /\ pc = "idle"
    /\ blob = JNull
    /\ args = <<>>
    /\ keyframes = <<>>
    /\ segments = <<>>
    /\ matched_set = {}
    /\ to_extract = <<>>
    /\ pos = 0
    /\ cap = "none"
    /\ fs = <<>>
    /\ stdout = <<>>
    /\ error = "none"

InitNearest ==
    /\ PipelineIdle
    /\ \E t \in MatcherTargets, ks \in SeqsUpTo(MatcherTimes, MaxLen) :
          call = [fn |-> "nearest_keyframe", target_ms |-> t, keyframes |-> ks]
    /\ ret = Pending

NearestCall ==
    /\ ret = Pending
    /\ ret' = IF call.keyframes = <<>>
              THEN Raised("ValueError: min() arg is an empty sequence")
              ELSE Returned(nearest_keyframe(call.target_ms, call.keyframes))
    /\ UNCHANGED <<call, pipeline_vars>>

NextNearest == NearestCall

SpecNearest == InitNearest /\ [][NextNearest]_vars

\* C1: nearest(t, K) of a non-empty K is an element of K at minimal distance
\* from t, and among the elements at that distance it is the one that occurs
\* first in K.
C1_NearestIsFirstMinimum ==
    (ret.state = "returned") =>
        LET t == call.target_ms
            K == call.keyframes
        IN  \E i \in 1..Len(K) :
                /\ K[i] = ret.value
                /\ \A j \in 1..Len(K) : Abs(K[i] - t) <= Abs(K[j] - t)
                /\ \A j \in 1..(i - 1) : Abs(K[j] - t) > Abs(K[i] - t)

\* A tie between two different keyframes, the later one smaller: the first
\* one was returned.
C1_Witness ==
    /\ ret.state = "returned"
    /\ call.target_ms = 1
    /\ call.keyframes = <<2, 0>>
    /\ ret.value = 2

-----------------------------------------------------------------------------
(* extract_keyframe_times applied to analysis results of several shapes *)

MaxListLen == 2
LocatorTimes == {0, 1, 2}

Chars(c) == JStr(<<c>>)

\* What an analysis result may hold under the key "KeyFrameTimesMs": lists
\* of ints (empty, unsorted, with duplicates), a list with a JSON boolean,
\* a list with a string, a scalar, null, and a mapping that holds the key again.
KeyValues ==
    {JIntList(s) : s \in SeqsUpTo(LocatorTimes, MaxListLen)}
    \cup {JList(<<JBool(TRUE), JInt(2)>>),
          JList(<<JInt(1), Chars("x")>>),
          Chars("x"),
          JNull,
          JDict(<<KeyFrameTimesMs>>, <<JIntList(<<2, 0>>)>>)}

\* A smaller choice for the second place of a result that has two
SecondValues ==
    {JIntList(<<>>), JIntList(<<1, 0>>), JList(<<JInt(1), Chars("x")>>), JNull}

Holder(v) == JDict(<<KeyFrameTimesMs, "kind">>, <<v, Chars("v")>>)

\* {"result": {"contents": [{"KeyFrameTimesMs": v, ...}]}}
PrimaryBlob(v) ==
    JDict(<<"result">>, <<JDict(<<"contents">>, <<JList(<<Holder(v)>>)>>)>>)

\* The primary path followed by another holder under a later key
PrimaryThenOther(v, w) ==
    JDict(<<"result", "other">>,
          <<JDict(<<"contents">>, <<JList(<<Holder(v)>>)>>), Holder(w)>>)

\* Another holder under an earlier key than the primary path
OtherThenPrimary(w, v) ==
    JDict(<<"other", "result">>,
          <<Holder(w), JDict(<<"contents">>, <<JList(<<Holder(v)>>)>>)>>)

\* [{"x": [[{"KeyFrameTimesMs": v}]]}]: no primary path, the key three levels deep
BuriedBlob(v) ==
    JList(<<JDict(<<"id", "x">>, <<JInt(7), JList(<<JList(<<Holder(v)>>)>>)>>)>>)

\* contents is empty, the key is elsewhere under result
EmptyContentsBlob(v) ==
    JDict(<<"result">>, <<JDict(<<"contents", "meta">>, <<JList(<<>>), Holder(v)>>)>>)

\* contents[0] is not a mapping (item.get raises), the key is in contents[1]
ScalarItemBlob(v) ==
    JDict(<<"result">>, <<JDict(<<"contents">>, <<JList(<<JInt(5), Holder(v)>>)>>)>>)

\* contents is a mapping, not a sequence
MappingContentsBlob(v) ==
    JDict(<<"result">>, <<JDict(<<"contents">>, <<Holder(v)>>)>>)

\* A match nested under an earlier key, a direct one under a later key
NestedThenDirect(v, w) ==
    JDict(<<"a", KeyFrameTimesMs>>, <<JDict(<<"b">>, <<Holder(v)>>), w>>)

LocatorBlobs ==
    {PrimaryBlob(v) : v \in KeyValues}
    \cup {PrimaryThenOther(v, w) : v \in KeyValues, w \in SecondValues}
    \cup {OtherThenPrimary(w, v) : w \in SecondValues, v \in KeyValues}
    \cup {BuriedBlob(v) : v \in KeyValues}
    \cup {EmptyContentsBlob(v) : v \in KeyValues}
    \cup {ScalarItemBlob(v) : v \in KeyValues}
    \cup {MappingContentsBlob(v) : v \in KeyValues}
    \cup {NestedThenDirect(v, w) : v \in KeyValues, w \in SecondValues}
    \cup {JInt(3), JNull, JDict(<<>>, <<>>), JList(<<>>),
          JDict(<<"result">>, <<Chars("r")>>),
          JDict(<<"result">>, <<JList(<<JInt(1)>>)>>)}

InitLocate ==
    /\ PipelineIdle
    /\ \E b \in LocatorBlobs : call = [fn |-> "extract_keyframe_times", blob |-> b]
    /\ ret = Pending

LocateCall ==
    /\ ret = Pending
    /\ ret' = extract_keyframe_times(call.blob)
    /\ UNCHANGED <<call, pipeline_vars>>

NextLocate == LocateCall

SpecLocate == InitLocate /\ [][NextLocate]_vars

\* The values of the tree: the tree itself and everything below it
RECURSIVE Subtrees(_)
Subtrees(v) ==
    {v} \cup
    (IF IsDict(v) THEN UNION {Subtrees(v.vals[i]) : i \in 1..Len(v.vals)}
     ELSE IF IsList(v) THEN UNION {Subtrees(v.items[i]) : i \in 1..Len(v.items)}
     ELSE {})

\* A sequence whose elements are all integers (a JSON boolean is not one)
IsIntegerSequence(v) == IsList(v) /\ \A i \in 1..Len(v.items) : v.items[i].tag = "int"

\* Every sequence of integers held under the expected key anywhere in the tree
IntegerSequencesUnderKey(b) ==
    UNION {{d.vals[i] : i \in {j \in 1..Len(d.keys) :
                                  /\ d.keys[j] = KeyFrameTimesMs
                                  /\ IsIntegerSequence(d.vals[j])}} :
           d \in {t \in Subtrees(b) : IsDict(t)}}

\* The value at result.contents[0] under the expected key, when the path exists
PrimaryValues(b) ==
    {v \in Subtrees(b) :
        /\ IsDict(b) /\ HasKey(b, "result")
        /\ IsDict(Item(b, "result")) /\ HasKey(Item(b, "result"), "contents")
        /\ IsList(Item(Item(b, "result"), "contents"))
        /\ Len(Item(Item(b, "result"), "contents").items) > 0
        /\ IsDict(Item(Item(b, "result"), "contents").items[1])
        /\ HasKey(Item(Item(b, "result"), "contents").items[1], KeyFrameTimesMs)
        /\ v = Item(Item(Item(b, "result"), "contents").items[1], KeyFrameTimesMs)}

\* C10: locate returns the primary path's value verbatim when it is a
\* sequence of integers; otherwise it returns a sequence of integers found
\* under the expected key somewhere in the tree; and it raises exactly when
\* the tree holds no sequence of integers under the expected key.
C10_LocateContract ==
    (ret.state # "pending") =>
        LET b == call.blob IN
        /\ \A v \in PrimaryValues(b) :
              IsIntegerSequence(v) => ret = Returned(v.items)
        /\ (ret.state = "returned") =>
              \E v \in IntegerSequencesUnderKey(b) : ret.value = v.items
        /\ (ret.state = "raised") <=> (IntegerSequencesUnderKey(b) = {})

-----------------------------------------------------------------------------
(* Properties of a run of main that speak of the analysis result's tree *)

\* The run was given a video that exists and has read the analysis result
ResultRead == args.video_exists /\ pc # "INIT"

CouldNotFind == "ValueError: Could not find 'KeyFrameTimesMs' in JSON."

\* C11: when the analysis result holds no keyframe sequence, the run aborts
\* with the locator's error before any extraction and nothing is written: no
\* output directory, no index, no phrase map, no frame, no decoder handle.
C11_LocateFailureWritesNothing ==
    (ResultRead /\ IntegerSequencesUnderKey(blob) = {}) =>
        /\ pc = "ABORTED"
        /\ error = CouldNotFind
        /\ fs = EmptyDisk
        /\ cap = NoCapture
        /\ stdout = <<>>
        /\ keyframes = <<>> /\ segments = <<>> /\ matched_set = {}
        /\ ~Selected

C11_Witness ==
    /\ pc = "ABORTED"
    /\ error = CouldNotFind
    /\ IntegerSequencesUnderKey(blob) = {}
    /\ args.match_phrases /\ ~args.dry_run /\ ~args.timestamps_only
    /\ fs = EmptyDisk

\* A word of the tree (a mapping with a text) without startTimeMs or
\* without endTimeMs
WordsWithoutTime(b) ==
    {w \in Subtrees(b) :
        /\ IsDict(w) /\ HasKey(w, "text")
        /\ (~HasKey(w, "startTimeMs") \/ ~HasKey(w, "endTimeMs"))}

\* Phrase matching was asked for and main has gone past the keyframe index
SegmentationRun ==
    /\ ResultRead
    /\ args.match_phrases
    /\ ~args.timestamps_only
    /\ pc \notin {"LOCATE_KEYFRAMES", "EMIT_INDEX"}
    /\ error # CouldNotFind

\* C14: when a word of the transcript lacks startTimeMs or endTimeMs, the
\* segmentation of a run that matches phrases fails with int()'s TypeError:
\* no phrase is kept (not even one closed before the offending word), no
\* match is computed, no phrase map is written, no frame is extracted.
C14_WordWithoutTimeIsFatal ==
    (SegmentationRun /\ WordsWithoutTime(blob) # {}) =>
        /\ pc = "ABORTED"
        /\ error = "TypeError"
        /\ segments = <<>>
        /\ matched_set = {}
        /\ fs.map_csv = NoFile
        /\ ~MapProduced
        /\ fs.images = <<>>
        /\ cap = NoCapture
        /\ ~Selected

\* The offending word comes after a word that closes a phrase
C14_Witness ==
    /\ pc = "ABORTED"
    /\ error = "TypeError"
    /\ fs.index_csv.exists
    /\ \E ks \in SeqsUpTo(PipelineTimes, MaxKeyframes) :
          blob = AnalysisResult(ks, <<Word(<<"b", ",">>, 1, 4), WordWithoutEnd(<<"c">>, 4)>>)
    /\ keyframes # <<>>

FailedToRead == "RuntimeError: Failed to read frame"

\* get_frame_at_ms has run on the handle that is open
SeekDone == cap.reads # <<>>

\* C17 as amended: an extraction first seeks by time and reads; it seeks by
\* frame index and reads again exactly when the first read yields no frame
\* and the stream reports a positive frame rate; it has a frame exactly when
\* the last read made yields one, and otherwise fails with the read error,
\* which is so raised when the first read fails and either the frame rate is
\* not positive or the second read fails too; that extraction then writes
\* nothing (the images are those of the earlier positions).
C17_SeekWithFallback ==
    /\ SeekDone =>
          LET n == Len(cap.reads) IN
          /\ pc \in {"FRAME_READ", "FRAME_RELEASE"}
          /\ Len(cap.seeks) = n /\ n \in 1..2
          /\ cap.seeks[1] = "CAP_PROP_POS_MSEC"
          /\ (n = 2) <=> (~cap.reads[1] /\ cap.fps = "positive")
          /\ (n = 2) => (cap.seeks[2] = "CAP_PROP_POS_FRAMES")
          /\ cap.reads[1] => (cap.fps = "not read")
          /\ (error = FailedToRead) <=> ~cap.reads[n]
          /\ (pc = "FRAME_READ") => (cap.reads[n] /\ error = "none")
    /\ (error = FailedToRead) =>
          /\ pc \in {"FRAME_RELEASE", "ABORTED"}
          /\ fs.images = FramesBefore(pos)

\* The second read yields the frame, after an earlier frame was written
C17_Witness ==
    /\ pc = "FRAME_READ"
    /\ cap.reads = <<FALSE, TRUE>>
    /\ cap.seeks = <<"CAP_PROP_POS_MSEC", "CAP_PROP_POS_FRAMES">>
    /\ pos = 2

\* C17 as stated: the extraction fails with the read error exactly when both
\* attempts, the time-based one and the one by frame index, yield no frame.
C17_FailsWhenBothAttemptsFail ==
    (SeekDone /\ pc = "FRAME_RELEASE") =>
        ((error = FailedToRead) <=> (cap.reads = <<FALSE, FALSE>>))

CouldNotOpen == "RuntimeError: Could not open video"

\* The calls of extract_and_write_frame made so far that were not dry runs
FramesAttempted ==
    IF ~Selected \/ args.dry_run THEN 0
    ELSE IF pc = "DONE" THEN Len(to_extract)
    ELSE IF AtLoopHead THEN pos - 1
    ELSE pos

\* C18 as amended: an extraction whose video opens holds one decoder handle
\* and releases it before it returns or raises; one whose video does not open
\* raises with no handle held and without a release. So at most one handle is
\* open at any time, and only inside an extraction; the handles opened are
\* those released plus the one open; their number is the number of frames
\* attempted less the one whose video did not open; a dry run opens none; no
\* handle is open at DONE or after an abort.
C18_HandleDiscipline ==
    /\ cap.open \in {0, 1}
    /\ (cap.open = 1) <=> (pc \in {"FRAME_OPENED", "FRAME_READ", "FRAME_RELEASE"})
    /\ cap.opened = cap.released + cap.open
    /\ cap.opened = FramesAttempted - (IF error = CouldNotOpen THEN 1 ELSE 0)
    /\ (pc \in {"DONE", "ABORTED"}) => (cap.open = 0 /\ cap.released = cap.opened)

\* A run aborted by a failed write at its second frame: two handles opened,
\* two released
C18_Witness ==
    /\ pc = "ABORTED"
    /\ error = "RuntimeError: Failed to write image"
    /\ pos = 2
    /\ cap.opened = 2 /\ cap.released = 2 /\ cap.open = 0

\* C18 as stated: every frame extraction that is not a dry run opens one
\* handle and releases it, so when the run is at DONE or has aborted the
\* handles opened and the handles released both number the frames attempted.
C18_OneCyclePerFrameAttempted ==
    (pc \in {"DONE", "ABORTED"}) =>
        /\ cap.open = 0
        /\ cap.opened = FramesAttempted
        /\ cap.released = FramesAttempted

\* The keyframes have been located: line 239 has returned
Located == ResultRead /\ error # CouldNotFind

MinOfEmpty == "ValueError: min() arg is an empty sequence"

\* C12: whenever locating succeeds the located keyframe sequence is
\* non-empty, and the matcher is never called with an empty keyframe
\* sequence: no run ends with min() raising on an empty sequence.
C12_LocatedIsNonEmpty ==
    /\ Located => (keyframes # <<>>)
    /\ error # MinOfEmpty

-----------------------------------------------------------------------------
(* extract_phrase_segments applied to transcripts whose words have valid times *)

MaxEntryWords == 3

\* Texts of a word: plain, closing with a comma, closing with a period inside
\* surrounding blanks, punctuation that is not at the end, and empty
SegmentTexts ==
    {JStr(<<"a">>), JStr(<<"b", ",">>), JStr(<<" ", "c", ".", " ">>),
     JStr(<<",", "d">>), JStr(<<>>), JNull}

\* A second transcript entry: none, without words, open, closed, both
SecondEntries ==
    {<<>>, <<<<>>>>, <<<<JStr(<<"e">>)>>>>, <<<<JStr(<<"f", ".">>)>>>>,
     <<<<JStr(<<"f", ".">>), JStr(<<"e">>)>>>>}

\* The words of an entry with the given texts; the word at position i of the
\* entry after `before` earlier words starts at 10*(before+i) and ends 5 ms
\* later, so a time names its word
TimedWords(texts, before) ==
    [i \in 1..Len(texts) |->
        JDict(<<"text", "startTimeMs", "endTimeMs">>,
              <<texts[i], JInt(10 * (before + i)), JInt(10 * (before + i) + 5)>>)]

Transcript(first, rest) ==
    JDict(<<"result">>,
          <<JDict(<<"contents">>,
                  <<JList(<<JDict(<<"transcriptPhrases">>,
                      <<JList(<<JDict(<<"words">>, <<JList(TimedWords(first, 0))>>)>>
                              \o [k \in 1..Len(rest) |->
                                    JDict(<<"words">>,
                                          <<JList(TimedWords(rest[k], Len(first)))>>)])>>)>>)>>)>>)

InitSegment ==
    /\ PipelineIdle
    /\ \E first \in SeqsUpTo(SegmentTexts, MaxEntryWords), rest \in SecondEntries :
          call = [fn |-> "extract_phrase_segments", blob |-> Transcript(first, rest)]
    /\ ret = Pending

SegmentCall ==
    /\ ret = Pending
    /\ ret' = extract_phrase_segments(call.blob)
    /\ UNCHANGED <<call, pipeline_vars>>

NextSegment == SegmentCall

SpecSegment == InitSegment /\ [][NextSegment]_vars

\* The word lists of the transcript entries of a documented-shape result
EntriesOf(b) ==
    LET phrases == Item(Item(Item(b, "result"), "contents").items[1], "transcriptPhrases").items
    IN  [k \in 1..Len(phrases) |-> Item(phrases[k], "words").items]

\* The word's text, blanks at its ends aside, ends with a comma or a period
ClosesPhrase(w) ==
    /\ Item(w, "text").tag = "str"
    /\ LET t == Item(w, "text").s IN
       \E j \in 1..Len(t) : /\ t[j] \in {",", "."}
                            /\ \A k \in (j + 1)..Len(t) : t[k] = " "

\* The positions at which a run of the entry ends: every closing word, and
\* the last word
RunEnds(ws) ==
    {i \in 1..Len(ws) : ClosesPhrase(ws[i])} \cup (IF ws = <<>> THEN {} ELSE {Len(ws)})

\* The first position of the run that ends at e: the one after the closest
\* closing word before e
RunStart(ws, e) ==
    LET before == {c \in 1..(e - 1) : ClosesPhrase(ws[c])}
    IN  IF before = {} THEN 1 ELSE 1 + CHOOSE c \in before : \A d \in before : d <= c

\* The start and end times of the runs of an entry, in order
RunTimes(ws) ==
    LET E == RunEnds(ws)
        nth(j) == CHOOSE e \in E : Cardinality({x \in E : x <= e}) = j
    IN  [j \in 1..Cardinality(E) |->
            <<Item(ws[RunStart(ws, nth(j))], "startTimeMs").n,
              Item(ws[nth(j)], "endTimeMs").n>>]

RECURSIVE AllRunTimes(_)
AllRunTimes(entries) ==
    IF entries = <<>> THEN <<>> ELSE RunTimes(entries[1]) \o AllRunTimes(Tail(entries))

\* The number of phrases the words of an entry make: one for each closing
\* word, and one more when the last word closes none
PhraseCount(ws) ==
    Cardinality({i \in 1..Len(ws) : ClosesPhrase(ws[i])})
    + (IF ws # <<>> /\ ~ClosesPhrase(ws[Len(ws)]) THEN 1 ELSE 0)

RECURSIVE SumOfCounts(_)
SumOfCounts(entries) ==
    IF entries = <<>> THEN 0 ELSE PhraseCount(entries[1]) + SumOfCounts(Tail(entries))

\* C13: the phrases returned for a transcript are, entry by entry and in
\* order, the runs of consecutive words that end at each word closing with a
\* comma or a period and at the last word of the entry; each phrase starts
\* at the start of its run's first word and ends at the end of its run's
\* last word, every word is in exactly one run, no run crosses an entry, and
\* the number of phrases is the number of closing words plus one for each
\* entry whose last word closes none.
C13_PhrasesAreTheRuns ==
    (ret.state # "pending") =>
        LET entries == EntriesOf(call.blob) IN
        /\ ret.state = "returned"
        /\ [i \in 1..Len(ret.value) |-> <<ret.value[i].startTimeMs, ret.value[i].endTimeMs>>]
              = AllRunTimes(entries)
        /\ Len(ret.value) = SumOfCounts(entries)
        /\ \A k \in 1..Len(entries) : \A i \in 1..Len(entries[k]) :
              Cardinality({e \in RunEnds(entries[k]) :
                              RunStart(entries[k], e) <= i /\ i <= e}) = 1

\* A transcript of two entries: a closed phrase, an open one left over in the
\* first entry, and two phrases in the second
C13_Witness ==
    /\ ret.state = "returned"
    /\ Len(EntriesOf(call.blob)) = 2
    /\ Len(EntriesOf(call.blob)[1]) = 3
    /\ ClosesPhrase(EntriesOf(call.blob)[1][2])
    /\ ~ClosesPhrase(EntriesOf(call.blob)[1][3])
    /\ Len(ret.value) = 4

-----------------------------------------------------------------------------
(* map_ffmpeg_q_to_jpeg_quality applied to qualities inside and outside 1..31 *)

\* How far below 1 and above 31 the qualities tried go
QualitySpan == 35

QualityInputs == (1 - QualitySpan)..(31 + QualitySpan)

InitQuality ==
    /\ PipelineIdle
    /\ \E q \in QualityInputs : call = [fn |-> "map_ffmpeg_q_to_jpeg_quality", q |-> q]
    /\ ret = Pending

QualityCall ==
    /\ ret = Pending
    /\ ret' = Returned(map_ffmpeg_q_to_jpeg_quality(call.q))
    /\ UNCHANGED <<call, pipeline_vars>>

NextQuality == QualityCall

SpecQuality == InitQuality /\ [][NextQuality]_vars

\* q brought into 1..31
ClampedQuality(q) == IF q < 1 THEN 1 ELSE IF q > 31 THEN 31 ELSE q

\* C15: the mapped quality of any integer q is 100 - 3*(clamp(q,1,31) - 1);
\* it lies in 10..100, no smaller q maps to less, q = 1 and below give 100,
\* q = 16 gives 55, q = 31 and above give 10.
C15_QualityMap ==
    (ret.state = "returned") =>
        LET q == call.q
            out == ret.value
        IN  /\ out = 100 - 3 * (ClampedQuality(q) - 1)
            /\ out \in 10..100
            /\ \A p \in QualityInputs :
                  (p <= q) => (map_ffmpeg_q_to_jpeg_quality(p) >= out)
            /\ (q <= 1) => (out = 100)
            /\ (q = 16) => (out = 55)
            /\ (q >= 31) => (out = 10)

\* A quality above 31 has been mapped
C15_Witness == ret.state = "returned" /\ call.q > 31 /\ ret.value = 10

-----------------------------------------------------------------------------
(* ms_to_timecode applied to times below and above 100 hours *)

\* Every time from 0 to MaxSmallMs is tried
MaxSmallMs == 100

\* and the times with these hours, minutes, seconds and milliseconds
TimecodeInputs ==
    0..MaxSmallMs
    \cup {h * 3600000 + m * 60000 + s * 1000 + f :
            h \in {0, 1, 9, 10, 99, 100, 123}, m \in {0, 1, 59},
            s \in {0, 59}, f \in {0, 7, 999}}

InitTimecode ==
    /\ PipelineIdle
    /\ \E ms \in TimecodeInputs : call = [fn |-> "ms_to_timecode", ms |-> ms]
    /\ ret = Pending

TimecodeCall ==
    /\ ret = Pending
    /\ ret' = Returned(ms_to_timecode(call.ms))
    /\ UNCHANGED <<call, pipeline_vars>>

NextTimecode == TimecodeCall

SpecTimecode == InitTimecode /\ [][NextTimecode]_vars

DigitChars == {"0", "1", "2", "3", "4", "5", "6", "7", "8", "9"}

DigitValue(c) ==
    CASE c = "0" -> 0 [] c = "1" -> 1 [] c = "2" -> 2 [] c = "3" -> 3 [] c = "4" -> 4
      [] c = "5" -> 5 [] c = "6" -> 6 [] c = "7" -> 7 [] c = "8" -> 8 [] c = "9" -> 9

\* The number a sequence of digits writes
RECURSIVE NumberOf(_)
NumberOf(cs) ==
    IF cs = <<>> THEN 0
    ELSE 10 * NumberOf(SubSeq(cs, 1, Len(cs) - 1)) + DigitValue(cs[Len(cs)])

AllDigits(cs) == cs # <<>> /\ \A i \in 1..Len(cs) : cs[i] \in DigitChars

\* The four fields of a time-code H..H:MM:SS.mmm, read from its end
HoursField(tc) == SubSeq(tc, 1, Len(tc) - 10)
MinutesField(tc) == SubSeq(tc, Len(tc) - 8, Len(tc) - 7)
SecondsField(tc) == SubSeq(tc, Len(tc) - 5, Len(tc) - 4)
MillisField(tc) == SubSeq(tc, Len(tc) - 2, Len(tc))

HundredHours == 100 * 3600000

\* C16: the time-code of a non-negative ms has fields h, m, s, mmm with
\* m <= 59, s <= 59, mmm <= 999 and h*3600000 + m*60000 + s*1000 + mmm = ms,
\* and below 100 hours it is exactly 12 characters long.
C16_TimecodeRoundTrips ==
    (ret.state = "returned") =>
        LET tc == ret.value
            n == Len(tc)
        IN  /\ n >= 12
            /\ tc[n - 9] = ":" /\ tc[n - 6] = ":" /\ tc[n - 3] = "."
            /\ AllDigits(HoursField(tc)) /\ AllDigits(MinutesField(tc))
            /\ AllDigits(SecondsField(tc)) /\ AllDigits(MillisField(tc))
            /\ NumberOf(MinutesField(tc)) \in 0..59
            /\ NumberOf(SecondsField(tc)) \in 0..59
            /\ NumberOf(MillisField(tc)) \in 0..999
            /\ NumberOf(HoursField(tc)) * 3600000 + NumberOf(MinutesField(tc)) * 60000
                 + NumberOf(SecondsField(tc)) * 1000 + NumberOf(MillisField(tc)) = call.ms
            /\ (call.ms < HundredHours) => (n = 12)

\* 99:59:59.999, the last time-code of 12 characters
C16_Witness ==
    /\ ret.state = "returned"
    /\ call.ms = HundredHours - 1
    /\ ret.value = <<"9", "9", ":", "5", "9", ":", "5", "9", ".", "9", "9", "9">>

-----------------------------------------------------------------------------
(* The order of the fallback search of extract_keyframe_times *)

\* The paths of a tree: a path is the sequence of positions (of a key in its
\* mapping, of an element in its sequence) that leads from the root to a value
RECURSIVE AllPaths(_)
AllPaths(v) ==
    {<<>>} \cup
    (IF IsDict(v)
     THEN UNION {{<<i>> \o p : p \in AllPaths(v.vals[i])} : i \in 1..Len(v.vals)}
     ELSE IF IsList(v)
     THEN UNION {{<<i>> \o p : p \in AllPaths(v.items[i])} : i \in 1..Len(v.items)}
     ELSE {})

\* The value a path leads to
RECURSIVE At(_, _)
At(v, p) ==
    IF p = <<>> THEN v
    ELSE At(IF IsDict(v) THEN v.vals[p[1]] ELSE v.items[p[1]], Tail(p))

\* p is met before q by a depth-first walk that takes keys and elements in
\* order: p is a proper prefix of q, or p turns to an earlier position where
\* the two part
Precedes(p, q) ==
    \/ Len(p) < Len(q) /\ SubSeq(q, 1, Len(p)) = p
    \/ \E k \in 1..min(Len(p), Len(q)) :
          /\ SubSeq(p, 1, k - 1) = SubSeq(q, 1, k - 1)
          /\ p[k] < q[k]

\* The paths to the values held under the expected key that are matches
MatchPaths(b, IsMatch(_)) ==
    {p \in AllPaths(b) :
        /\ p # <<>>
        /\ LET parent == At(b, SubSeq(p, 1, Len(p) - 1)) IN
           IsDict(parent) /\ parent.keys[p[Len(p)]] = KeyFrameTimesMs
        /\ IsMatch(At(b, p))}

\* What the search gives when it returns the first match in walk order
FirstMatch(b, IsMatch(_)) ==
    LET M == MatchPaths(b, IsMatch) IN
    IF M = {} THEN Raised(CouldNotFind)
    ELSE Returned(At(b, CHOOSE p \in M : \A q \in M : q = p \/ Precedes(p, q)).items)

\* C19: when the primary path gives no sequence of integers, locate returns
\* the first value, in depth-first order with keys and elements taken in
\* order, that is held under the expected key and is a sequence of integers;
\* a value under the expected key that is not one is descended into, and a
\* match nested under an earlier key wins over a direct match under a later
\* key.
C19_FirstMatchInWalkOrder ==
    (/\ ret.state # "pending"
     /\ \A v \in PrimaryValues(call.blob) : ~IsIntegerSequence(v))
        => (ret = FirstMatch(call.blob, IsIntegerSequence))

\* The same order with a match being what isinstance(t, int) accepts, a JSON
\* boolean included
WalkOrderWithPythonInts ==
    (ret.state # "pending" /\ primary_path(call.blob) = JNull)
        => (ret = FirstMatch(call.blob, IsListOfInt))

====
